---- MODULE Spec2Model ----
(***************************************************************************)
(* A model of the two components of the patient-monitoring dashboard:      *)
(*   - PatientDetails (the Call Detail Reconciler, src/unnamed/part_000)   *)
(*   - PatientList    (the Caller Ranking Engine,                          *)
(*                     src/components/PatientList.tsx)                     *)
(* Each component has its own specification; the variables of the other    *)
(* component stay at their initial values in it.                           *)
(***************************************************************************)
EXTENDS Integers, Sequences, FiniteSets, TLC

\* ------------------------------------------------------------------ bounds
MaxTs == 2          \* call timestamps are 1..MaxTs
MaxId == 2          \* call row ids are 1..MaxId
MaxLen == 3         \* rows in a call list handed to the deduplication alone
MaxInflight == 2    \* fetches in flight at once
MaxLines == 4       \* lines of a transcript

Phones == {"p1", "p2"}
Timestamps == 1..MaxTs
CallIds == 1..MaxId

\* ------------------------------------------------------------------ values
Null == "null"

\* A Call row: its id, its call_timestamp, the caller it belongs to.
CallRows == [id : CallIds, call_timestamp : Timestamps, phone_number : Phones]

\* useState<...|null>(null) for selectedCall: the absent call.
NoCall == [id |-> 0, call_timestamp |-> 0, phone_number |-> "none"]

\* The rows of a call list of up to MaxLen rows, all of one caller.
ListRows == [id : 1..MaxLen, call_timestamp : Timestamps, phone_number : {"p1"}]

SeqsUpTo(S, n) == UNION {[1..k -> S] : k \in 0..n}

RemoveAt(s, i) == [k \in 1..(Len(s) - 1) |-> IF k < i THEN s[k] ELSE s[k + 1]]

DistinctIds(s) == \A i, j \in 1..Len(s) : i # j => s[i].id # s[j].id

\* .order('call_timestamp', { ascending: false })
TsDescending(s) == \A i, j \in 1..Len(s) : i < j => s[i].call_timestamp >= s[j].call_timestamp

\* What the calls query can return for one caller: that caller's rows, one per
\* row id, ordered by call_timestamp descending; timestamps may repeat.
FetchedCalls ==
  [p \in Phones |->
     {s \in SeqsUpTo({r \in CallRows : r.phone_number = p}, MaxId) :
        DistinctIds(s) /\ TsDescending(s)}]

\* --------------------------------------------------- fetchCallerData: dedupe
\* acc.find(call => call.call_timestamp === current.call_timestamp)
Exists(acc, current) == \E k \in 1..Len(acc) : acc[k].call_timestamp = current.call_timestamp

\* The reducer's step keeping the later row of a timestamp instead of the first.
ReduceStepKeepLast(acc, current) ==
  IF Exists(acc, current)
    THEN [k \in 1..Len(acc) |->
            IF acc[k].call_timestamp = current.call_timestamp THEN current ELSE acc[k]]
    ELSE Append(acc, current)

\* The reducer's step that pushes every row.
ReduceStepPushAll(acc, current) == Append(acc, current)

\* One step of the reducer: push current unless its timestamp is already there.
ReduceStep(acc, current) == IF Exists(acc, current) THEN acc ELSE Append(acc, current)

RECURSIVE ReduceFrom(_, _, _)
ReduceFrom(acc, data, i) ==
  IF i > Len(data) THEN acc ELSE ReduceFrom(ReduceStep(acc, data[i]), data, i + 1)

\* callsData?.reduce(..., []) || []
UniqueCalls(callsData) == ReduceFrom(<<>>, callsData, 1)

\* ------------------------------------------------ PatientList: the callers
UrgencyLevels == {"LOW", "MEDIUM", "IMMINENT"}
NoLevel == "undefined"          \* urgency_level absent
Sources == {"Phone", "Chatbot"}
SortFields == {"urgency", "lastCall"}
SortOrders == {"asc", "desc"}
FilterSources == {"All", "Phone Call", "Chatbot"}

\* A row of the callers table; last_call_timestamp stands for the instant
\* new Date(...).getTime() gives, the timestamps being valid dates.
CallerRows == [phone_number : Phones, last_call_timestamp : Timestamps]

\* useState<string | null>(null) for selectedId; the consumer before any
\* onSelect call.
NoCaller ==
  [phone_number |-> Null, last_call_timestamp |-> 0, urgency_level |-> NoLevel,
   last_source |-> Null]

DistinctPhones(s) == \A i, j \in 1..Len(s) : i # j => s[i].phone_number # s[j].phone_number

\* .order('last_call_timestamp', { ascending: false })
LastCallDescending(s) ==
  \A i, j \in 1..Len(s) : i < j => s[i].last_call_timestamp >= s[j].last_call_timestamp

\* Last-call timestamps, taken to the microsecond, differ between callers.
DistinctLastCalls(s) ==
  \A i, j \in 1..Len(s) : i # j => s[i].last_call_timestamp # s[j].last_call_timestamp

\* What the callers query can return: one row per phone number, ordered by
\* last_call_timestamp descending.
FetchedCallers ==
  {s \in SeqsUpTo(CallerRows, Cardinality(Phones)) :
     DistinctPhones(s) /\ DistinctLastCalls(s) /\ LastCallDescending(s)}

\* The outcome of one caller's most-recent-call query: no data (the query
\* failed or the caller has no call), or the urgency_level and source of the
\* row returned. The component runs draw the row from RecentCalls.
NoData == [urgency_level |-> NoLevel, source |-> Null]
RecentCalls == {[urgency_level |-> "IMMINENT", source |-> "Phone"]}
Lookups == RecentCalls \cup {NoData}

\* { ...caller, urgency_level: callsData?.[0]?.urgency_level,
\*   last_source: callsData?.[0]?.source || null }
WithScore(c, lookup) ==
  [phone_number |-> c.phone_number, last_call_timestamp |-> c.last_call_timestamp,
   urgency_level |-> lookup.urgency_level, last_source |-> lookup.source]

\* const urgencyOrder = { 'IMMINENT': 3, 'MEDIUM': 2, 'LOW': 1 } applied to
\* a.urgency_level || 'LOW'
UrgencyOrder(level) ==
  CASE level = "IMMINENT" -> 3
    [] level = "MEDIUM" -> 2
    [] OTHER -> 1

\* The comparator with the order applied the same way for both fields' asc.
CompareOneWay(a, b, field, order) ==
  IF field = "urgency"
    THEN UrgencyOrder(a.urgency_level) - UrgencyOrder(b.urgency_level)
    ELSE a.last_call_timestamp - b.last_call_timestamp

\* The comparator handed to sort: negative when a goes before b.
Compare(a, b, field, order) ==
  IF field = "urgency"
    THEN IF order = "asc"
           THEN UrgencyOrder(a.urgency_level) - UrgencyOrder(b.urgency_level)
           ELSE UrgencyOrder(b.urgency_level) - UrgencyOrder(a.urgency_level)
    ELSE IF order = "asc"
           THEN a.last_call_timestamp - b.last_call_timestamp
           ELSE b.last_call_timestamp - a.last_call_timestamp

\* x put into the sorted list s behind every element that does not go after it.
RECURSIVE InsertSorted(_, _, _, _)
InsertSorted(s, x, field, order) ==
  IF s = <<>> THEN <<x>>
  ELSE IF Compare(s[Len(s)], x, field, order) <= 0 THEN Append(s, x)
  ELSE Append(InsertSorted(SubSeq(s, 1, Len(s) - 1), x, field, order), s[Len(s)])

RECURSIVE SortFrom(_, _, _, _, _)
SortFrom(acc, s, i, field, order) ==
  IF i > Len(s) THEN acc
  ELSE SortFrom(InsertSorted(acc, s[i], field, order), s, i + 1, field, order)

\* [...callers].sort(comparator): Array.prototype.sort is stable.
SortCallers(cs, field, order) == SortFrom(<<>>, cs, 1, field, order)

\* The filter with the two sources swapped.
ShownSwapped(c, filter) ==
  CASE filter = "All" -> TRUE
    [] filter = "Phone Call" -> c.last_source = "Chatbot"
    [] filter = "Chatbot" -> c.last_source = "Phone"
    [] OTHER -> TRUE

\* The predicate of callers.filter(...) in the render.
Shown(c, filter) ==
  CASE filter = "All" -> TRUE
    [] filter = "Phone Call" -> c.last_source = "Phone"
    [] filter = "Chatbot" -> c.last_source = "Chatbot"
    [] OTHER -> TRUE

\* The rows rendered: callers.filter(...).
Visible(cs, filter) == SelectSeq(cs, LAMBDA c : Shown(c, filter))

\* handleSort's new order keeping the order when the field changes.
SortOrderKept(field, curField, curOrder) ==
  IF curField = field THEN (IF curOrder = "asc" THEN "desc" ELSE "asc") ELSE curOrder

\* handleSort: the order after choosing field.
SortOrderAfter(field, curField, curOrder) ==
  IF curField = field THEN (IF curOrder = "asc" THEN "desc" ELSE "asc") ELSE "desc"

\* ------------------------------------------------------------------- state
VARIABLES
  \* PatientDetails
  caller,        \* caller.phone_number, the prop
  calls,         \* useState<Call[]>([])
  isLoading,     \* useState(true)
  error,         \* useState<string | null>(null)
  selectedCall,  \* useState<Call | null>(null)
  loads,         \* fetchCallerData runs awaiting the calls query, by caller fetched
  lastInsert,    \* the payload, when the handler that ran last is the INSERT handler
  repeated,      \* the INSERT handler ran last and the time before, on one payload
  channel,       \* the phone number the subscribed INSERT channel filters on
  detailUnmounted, \* the component was unmounted
  latestLoad,    \* the fetchCallerData run started last: "inflight", or how it
                 \* ended, "ok" or "failed"
  \* PatientList
  mounted,       \* useState(false)
  callers,       \* useState<...[]>([])
  selectedId,    \* useState<string | null>(null)
  sortField,     \* useState<SortField>('lastCall')
  sortOrder,     \* useState<SortOrder>('desc')
  filterSource,  \* useState<...>('All')
  fetches,       \* fetchCallersAndScores runs awaiting their queries, each with
                 \* the selectedId, sortField and sortOrder its closure holds
  consumer,      \* the caller last handed to onSelect
  lastStep,      \* what the handler that ran last did: "onSelect" when it
                 \* called onSelect, "failed" when it met callersError
  response,      \* what the run that completed in the last step had fetched,
                 \* with its closure; empty when no run completed in it
  subscribed,    \* the fetchCallersAndScores closures the two channels deliver to
  unmounted,     \* the component was unmounted
  \* sortCallers on its own
  sortArgs,      \* its arguments
  sortedCallers, \* its result
  sortPc,
  \* the deduplication on its own
  callsData,     \* the fetched rows
  uniqueCalls,   \* the reducer's result
  dedupePc,
  \* filterKeyQuestions on its own
  transcript,    \* transcript.split('\n')
  filteredLines, \* the lines pushed; the result joins them with '\n'
  keyPc,
  \* the rendering of urgency levels on its own
  viewArgs,      \* the urgency_level of each caller of the list and of selectedCall
  views,         \* what the two components render of them
  viewPc

detailVars ==
  <<caller, calls, isLoading, error, selectedCall, loads, lastInsert, repeated, channel,
    detailUnmounted, latestLoad>>
dedupeVars == <<callsData, uniqueCalls, dedupePc>>
listVars ==
  <<mounted, callers, selectedId, sortField, sortOrder, filterSource, fetches, consumer,
    lastStep, response, subscribed, unmounted>>
sortVars == <<sortArgs, sortedCallers, sortPc>>
keyVars == <<transcript, filteredLines, keyPc>>
viewVars == <<viewArgs, views, viewPc>>
vars == <<detailVars, dedupeVars, listVars, sortVars, keyVars, viewVars>>

notDetail == <<dedupeVars, listVars, sortVars, keyVars, viewVars>>
notDedupe == <<detailVars, listVars, sortVars, keyVars, viewVars>>
notList == <<detailVars, dedupeVars, sortVars, keyVars, viewVars>>
notSort == <<detailVars, dedupeVars, listVars, keyVars, viewVars>>
notKey == <<detailVars, dedupeVars, listVars, sortVars, viewVars>>
notView == <<detailVars, dedupeVars, listVars, sortVars, keyVars>>

\* ------------------------------------------------- PatientDetails: handlers
NotInsert == lastInsert' = NoCall /\ repeated' = FALSE

\* The state after the first render and its effect: the useState initial
\* values, fetchCallerData started for the caller, the channel subscribed.
DetailInit ==
  /\ caller \in Phones
  /\ calls = <<>>
  /\ isLoading = TRUE
  /\ error = Null
  /\ selectedCall = NoCall
  /\ loads = <<caller>>
  /\ lastInsert = NoCall
  /\ repeated = FALSE
  /\ channel = caller
  /\ detailUnmounted = FALSE
  /\ latestLoad = "inflight"

DetailIdle ==
  /\ caller = "p1"
  /\ calls = <<>>
  /\ isLoading = TRUE
  /\ error = Null
  /\ selectedCall = NoCall
  /\ loads = <<>>
  /\ lastInsert = NoCall
  /\ repeated = FALSE
  /\ channel = Null
  /\ detailUnmounted = FALSE
  /\ latestLoad = "none"

\* How the run started last stands once run i ended with outcome: the runs
\* in flight are in the order they started in, so the run started last, when
\* in flight, is the last of them.
LatestAfter(i, outcome) ==
  IF latestLoad = "inflight" /\ i = Len(loads) THEN outcome ELSE latestLoad

\* fetchCallerData after the await, callsError absent. The setters of an
\* unmounted component do nothing.
LoadOk(i, data) ==
  /\ i \in 1..Len(loads)
  /\ data \in FetchedCalls[loads[i]]
  /\ IF detailUnmounted
       THEN UNCHANGED <<calls, selectedCall, isLoading>>
       ELSE LET unique == UniqueCalls(data) IN
              /\ calls' = unique
              /\ selectedCall' = IF Len(unique) > 0 THEN unique[1] ELSE selectedCall
              /\ isLoading' = FALSE
  /\ loads' = RemoveAt(loads, i)
  /\ latestLoad' = LatestAfter(i, "ok")
  /\ NotInsert
  /\ UNCHANGED <<caller, error, channel, detailUnmounted>>
  /\ UNCHANGED notDetail

\* The catch branch leaving isLoading as it is.
LoadFailStillLoading(i) ==
  /\ i \in 1..Len(loads)
  /\ error' = IF detailUnmounted THEN error ELSE "failed"
  /\ loads' = RemoveAt(loads, i)
  /\ latestLoad' = LatestAfter(i, "failed")
  /\ NotInsert
  /\ UNCHANGED <<caller, calls, selectedCall, isLoading, channel, detailUnmounted>>
  /\ UNCHANGED notDetail

\* fetchCallerData after the await, callsError present: the catch branch.
LoadFail(i) ==
  /\ i \in 1..Len(loads)
  /\ IF detailUnmounted
       THEN UNCHANGED <<error, isLoading>>
       ELSE error' = "failed" /\ isLoading' = FALSE
  /\ loads' = RemoveAt(loads, i)
  /\ latestLoad' = LatestAfter(i, "failed")
  /\ NotInsert
  /\ UNCHANGED <<caller, calls, selectedCall, channel, detailUnmounted>>
  /\ UNCHANGED notDetail

\* The insert handler's merge that prepends whatever the timestamp.
InsertCallsAlways(prevCalls, newCall) == <<newCall>> \o prevCalls

\* setCalls(prevCalls => ...) of the INSERT handler.
InsertCalls(prevCalls, newCall) ==
  IF \E k \in 1..Len(prevCalls) : prevCalls[k].call_timestamp = newCall.call_timestamp
    THEN prevCalls
    ELSE <<newCall>> \o prevCalls

\* The insert handler's selection update that always takes the new call.
InsertSelectedAlways(current, newCall) == newCall

\* setSelectedCall(current => current || newCall)
InsertSelected(current, newCall) == IF current # NoCall THEN current ELSE newCall

\* The postgres_changes INSERT handler of the channel filtered on the caller.
InsertNotification(newCall) ==
  /\ newCall \in CallRows
  /\ newCall.phone_number = channel
  \* the row id is the table's key: a row the list holds is not inserted anew
  \* under another timestamp
  /\ \A k \in 1..Len(calls) : calls[k].id = newCall.id => calls[k] = newCall
  /\ calls' = InsertCalls(calls, newCall)
  /\ selectedCall' = InsertSelected(selectedCall, newCall)
  /\ lastInsert' = newCall
  /\ repeated' = (lastInsert = newCall)
  /\ UNCHANGED <<caller, isLoading, error, loads, channel, detailUnmounted, latestLoad>>
  /\ UNCHANGED notDetail

\* onClick={() => setSelectedCall(call)} of a row of the rendered history;
\* the history renders only past the loading and error branches.
SelectCall(k) ==
  /\ ~detailUnmounted
  /\ ~isLoading
  /\ error = Null
  /\ k \in 1..Len(calls)
  /\ selectedCall' = calls[k]
  /\ NotInsert
  /\ UNCHANGED <<caller, calls, isLoading, error, loads, channel, detailUnmounted, latestLoad>>
  /\ UNCHANGED notDetail

\* The parent passes another caller: the effect's cleanup unsubscribes, the
\* effect runs again, starting fetchCallerData and subscribing for p.
SwitchCaller(p) ==
  /\ ~detailUnmounted
  /\ p \in Phones
  /\ p # caller
  /\ Len(loads) < MaxInflight
  /\ caller' = p
  /\ isLoading' = TRUE
  /\ error' = Null
  /\ loads' = Append(loads, p)
  /\ channel' = p
  /\ latestLoad' = "inflight"
  /\ NotInsert
  /\ UNCHANGED <<calls, selectedCall, detailUnmounted>>
  /\ UNCHANGED notDetail

\* The component is unmounted: the effect's cleanup unsubscribes the channel;
\* the runs in flight go on. The component's state goes with the component: it
\* is left at the useState initial values.
UnmountDetails ==
  /\ ~detailUnmounted
  /\ detailUnmounted' = TRUE
  /\ channel' = Null
  /\ calls' = <<>>
  /\ isLoading' = TRUE
  /\ error' = Null
  /\ selectedCall' = NoCall
  /\ NotInsert
  /\ UNCHANGED <<caller, loads, latestLoad>>
  /\ UNCHANGED notDetail

\* The render: the loading branch, the error branch, else the details.
View(loading, err) ==
  IF loading THEN "loading" ELSE IF err # Null THEN "error" ELSE "details"

\* ---------------------------------------------------- PatientList: handlers
\* The useState initial values, before the mount effect.
ListInit ==
  /\ mounted = FALSE
  /\ callers = <<>>
  /\ selectedId = Null
  /\ sortField = "lastCall"
  /\ sortOrder = "desc"
  /\ filterSource = "All"
  /\ fetches = <<>>
  /\ consumer = NoCaller
  /\ lastStep = "none"
  /\ response = <<>>
  /\ subscribed = {}
  /\ unmounted = FALSE

\* What the callers query and the per-caller queries of one run can put
\* together: callersWithScoresData, in the order of callersData.
CallersWithScoresData ==
  UNION {{[k \in 1..Len(cs) |-> WithScore(cs[k], ls[k])] : ls \in [1..Len(cs) -> Lookups]} :
           cs \in FetchedCallers}

\* sortCallers(callersWithScoresData, sortField, sortOrder), for every such data.
SortedCallers ==
  [data \in CallersWithScoresData, field \in SortFields, order \in SortOrders |->
     SortCallers(data, field, order)]

\* The closure of the fetchCallersAndScores an effect run creates.
\* overtaken: a run started later has completed and set the list.
Closure(id, field, order) ==
  [selectedId |-> id, sortField |-> field, sortOrder |-> order, overtaken |-> FALSE]

\* The outcome of one caller's most-recent-call query: { data: null } when the
\* query failed, else the one row of the caller's most recent call.
LookupFailed == [failed |-> TRUE, data |-> <<>>]
LookupOutcomes == {LookupFailed} \cup {[failed |-> FALSE, data |-> <<r>>] : r \in RecentCalls}

\* callsData?.[0]: its urgency_level and source, absent without data.
Score(outcome) ==
  IF outcome.failed \/ outcome.data = <<>> THEN NoData ELSE outcome.data[1]

\* The annotation that leaves out the callers whose lookup failed.
WithScoresDropFailed(callersData, lookups) ==
  LET all == [k \in 1..Len(callersData) |->
                [c |-> WithScore(callersData[k], Score(lookups[k])), failed |-> lookups[k].failed]]
      kept == SelectSeq(all, LAMBDA x : ~x.failed)
  IN [k \in 1..Len(kept) |-> kept[k].c]

\* callersWithScoresData: Promise.all keeps the order of callersData.
WithScores(callersData, lookups) ==
  [k \in 1..Len(callersData) |-> WithScore(callersData[k], Score(lookups[k]))]

\* The runs still in flight once run i has set the list: the runs started
\* before it are overtaken.
Overtake(fs, i) ==
  RemoveAt([k \in 1..Len(fs) |-> IF k < i THEN [fs[k] EXCEPT !.overtaken = TRUE] ELSE fs[k]], i)

\* The cleanup of the effect run before, unsubscribing its two channels, and
\* the two channels of the new run, delivering to its fetchCallersAndScores.
Subscribe(subs, closure) == {closure}

\* useEffect(() => setMounted(true), []) and, mounted, the second effect:
\* fetchCallersAndScores() and the two channel subscriptions.
Mount ==
  /\ ~mounted
  /\ ~unmounted
  /\ mounted' = TRUE
  /\ fetches' = Append(fetches, Closure(selectedId, sortField, sortOrder))
  /\ subscribed' = Subscribe(subscribed, Closure(selectedId, sortField, sortOrder))
  /\ lastStep' = "none"
  /\ response' = <<>>
  /\ UNCHANGED <<callers, selectedId, sortField, sortOrder, filterSource, consumer, unmounted>>
  /\ UNCHANGED notList

\* A postgres_changes event of either channel: a subscribed
\* fetchCallersAndScores starts.
ChangeNotification ==
  /\ Len(fetches) < MaxInflight
  /\ \E handler \in subscribed : fetches' = Append(fetches, handler)
  /\ lastStep' = "none"
  /\ response' = <<>>
  /\ UNCHANGED <<mounted, callers, selectedId, sortField, sortOrder, filterSource, consumer,
                 subscribed, unmounted>>
  /\ UNCHANGED notList

\* fetchCallersAndScores meeting callersError and clearing the list.
FetchCallersErrorClears(i) ==
  /\ i \in 1..Len(fetches)
  /\ fetches' = RemoveAt(fetches, i)
  /\ callers' = <<>>
  /\ lastStep' = "failed"
  /\ response' = <<>>
  /\ UNCHANGED <<mounted, selectedId, sortField, sortOrder, filterSource, consumer,
                 subscribed, unmounted>>
  /\ UNCHANGED notList

\* fetchCallersAndScores after the first await, callersError present.
FetchCallersError(i) ==
  /\ i \in 1..Len(fetches)
  /\ fetches' = RemoveAt(fetches, i)
  /\ lastStep' = "failed"
  /\ response' = <<>>
  /\ UNCHANGED <<mounted, callers, selectedId, sortField, sortOrder, filterSource, consumer,
                 subscribed, unmounted>>
  /\ UNCHANGED notList

\* sortedCallers.find(c => c.phone_number === selectedId)
Find(cs, id) == {k \in 1..Len(cs) : cs[k].phone_number = id /\ \A j \in 1..(k - 1) : cs[j].phone_number # id}

\* fetchCallersAndScores with a request-generation guard: a run overtaken by
\* a run started later leaves the list as it is.
FetchCallersDoneGuarded(i, callersData, lookups) ==
  /\ i \in 1..Len(fetches)
  /\ callersData \in FetchedCallers
  /\ lookups \in [1..Len(callersData) -> LookupOutcomes]
  /\ LET data == WithScores(callersData, lookups)
         sorted == SortedCallers[data, fetches[i].sortField, fetches[i].sortOrder]
         found == Find(sorted, fetches[i].selectedId)
     IN /\ callers' = IF unmounted \/ fetches[i].overtaken THEN callers ELSE sorted
        /\ IF fetches[i].selectedId # Null /\ found # {}
             THEN consumer' = sorted[CHOOSE k \in found : TRUE] /\ lastStep' = "onSelect"
             ELSE consumer' = consumer /\ lastStep' = "none"
  /\ response' =
       IF unmounted THEN <<>>
       ELSE <<[callersData |-> callersData, lookups |-> lookups, closure |-> fetches[i]]>>
  /\ fetches' = Overtake(fetches, i)
  /\ UNCHANGED <<mounted, selectedId, sortField, sortOrder, filterSource, subscribed, unmounted>>
  /\ UNCHANGED notList

\* fetchCallersAndScores after Promise.all: sort with the closure's field and
\* order, setCallers, and onSelect of the closure's selected caller if found.
\* setCallers of an unmounted component does nothing.
FetchCallersDone(i, callersData, lookups) ==
  /\ i \in 1..Len(fetches)
  /\ callersData \in FetchedCallers
  /\ lookups \in [1..Len(callersData) -> LookupOutcomes]
  /\ LET data == WithScores(callersData, lookups)
         sorted == SortedCallers[data, fetches[i].sortField, fetches[i].sortOrder]
         found == Find(sorted, fetches[i].selectedId)
     IN /\ callers' = IF unmounted THEN callers ELSE sorted
        /\ IF fetches[i].selectedId # Null /\ found # {}
             THEN consumer' = sorted[CHOOSE k \in found : TRUE] /\ lastStep' = "onSelect"
             ELSE consumer' = consumer /\ lastStep' = "none"
  /\ response' =
       IF unmounted THEN <<>>
       ELSE <<[callersData |-> callersData, lookups |-> lookups, closure |-> fetches[i]]>>
  /\ fetches' = Overtake(fetches, i)
  /\ UNCHANGED <<mounted, selectedId, sortField, sortOrder, filterSource, subscribed, unmounted>>
  /\ UNCHANGED notList

\* onClick of the k-th rendered row: setSelectedId, onSelect(caller); when
\* selectedId changes the effect runs again and starts fetchCallersAndScores.
ClickCaller(k) ==
  /\ mounted
  /\ ~unmounted
  /\ k \in 1..Len(Visible(callers, filterSource))
  /\ LET c == Visible(callers, filterSource)[k] IN
       /\ selectedId' = c.phone_number
       /\ consumer' = c
       /\ IF c.phone_number # selectedId
            THEN /\ Len(fetches) < MaxInflight
                 /\ fetches' = Append(fetches, Closure(c.phone_number, sortField, sortOrder))
                 /\ subscribed' =
                      Subscribe(subscribed, Closure(c.phone_number, sortField, sortOrder))
            ELSE fetches' = fetches /\ subscribed' = subscribed
  /\ lastStep' = "onSelect"
  /\ response' = <<>>
  /\ UNCHANGED <<mounted, callers, sortField, sortOrder, filterSource, unmounted>>
  /\ UNCHANGED notList

\* handleSort(field); sortField or sortOrder changes, so the effect runs
\* again and starts fetchCallersAndScores.
HandleSort(field) ==
  /\ mounted
  /\ ~unmounted
  /\ field \in SortFields
  /\ Len(fetches) < MaxInflight
  /\ sortField' = field
  /\ sortOrder' = SortOrderAfter(field, sortField, sortOrder)
  /\ fetches' = Append(fetches, Closure(selectedId, field, sortOrder'))
  /\ subscribed' = Subscribe(subscribed, Closure(selectedId, field, sortOrder'))
  /\ lastStep' = "none"
  /\ response' = <<>>
  /\ UNCHANGED <<mounted, callers, selectedId, filterSource, consumer, unmounted>>
  /\ UNCHANGED notList

\* onClick={() => setFilterSource(type)} of a filter tab.
SetFilterSource(type) ==
  /\ mounted
  /\ ~unmounted
  /\ type \in FilterSources
  /\ filterSource' = type
  /\ lastStep' = "none"
  /\ response' = <<>>
  /\ UNCHANGED <<mounted, callers, selectedId, sortField, sortOrder, fetches, consumer,
                 subscribed, unmounted>>
  /\ UNCHANGED notList

\* The component is unmounted: the effect's cleanup unsubscribes the two
\* channels; the runs in flight go on. The component's state goes with the
\* component: it is left at the useState initial values.
Unmount ==
  /\ mounted
  /\ ~unmounted
  /\ unmounted' = TRUE
  /\ subscribed' = {}
  /\ callers' = <<>>
  /\ selectedId' = Null
  /\ sortField' = "lastCall"
  /\ sortOrder' = "desc"
  /\ filterSource' = "All"
  /\ lastStep' = "none"
  /\ response' = <<>>
  /\ UNCHANGED <<mounted, fetches, consumer>>
  /\ UNCHANGED notList

\* ------------------------------------------------------ sortCallers alone
SortIdle ==
  /\ sortArgs = [callers |-> <<>>, field |-> "lastCall", order |-> "desc"]
  /\ sortedCallers = <<>>
  /\ sortPc = "idle"

\* What sortCallers reads of a caller: any timestamp, any urgency or none.
SortKeys == [last_call_timestamp : Timestamps, urgency_level : UrgencyLevels \cup {NoLevel}]

\* The caller lists sortCallers is handed: up to MaxLen callers, the i-th with
\* phone number i.
SortInputs ==
  {[i \in 1..Len(ks) |->
      [phone_number |-> i, last_call_timestamp |-> ks[i].last_call_timestamp,
       urgency_level |-> ks[i].urgency_level, last_source |-> Null]] :
     ks \in SeqsUpTo(SortKeys, MaxLen)}

SortInit ==
  /\ sortArgs \in [callers : SortInputs, field : SortFields, order : SortOrders]
  /\ sortedCallers = <<>>
  /\ sortPc = "called"

Sort ==
  /\ sortPc = "called"
  /\ sortedCallers' = SortCallers(sortArgs.callers, sortArgs.field, sortArgs.order)
  /\ sortPc' = "sorted"
  /\ UNCHANGED sortArgs
  /\ UNCHANGED notSort

\* ------------------------------------------------ the deduplication alone
DedupeIdle ==
  /\ callsData = <<>>
  /\ uniqueCalls = <<>>
  /\ dedupePc = "idle"

DedupeInit ==
  /\ callsData \in {s \in SeqsUpTo(ListRows, MaxLen) : DistinctIds(s)}
  /\ uniqueCalls = <<>>
  /\ dedupePc = "fetched"

Dedupe ==
  /\ dedupePc = "fetched"
  /\ uniqueCalls' = UniqueCalls(callsData)
  /\ dedupePc' = "deduped"
  /\ UNCHANGED callsData
  /\ UNCHANGED notDedupe

\* -------------------------------------------------- filterKeyQuestions alone
\* keyQuestions, each by its index in the array.
KeyQuestions == 1..4

\* A line of a transcript: what it starts with ('AI:', 'User:' or neither) and,
\* for an AI line, the key questions its message includes, up to two of them.
Lines ==
  {[tag |-> "AI", has |-> qs] : qs \in {q \in SUBSET KeyQuestions : Cardinality(q) <= 2}}
    \cup {[tag |-> "User", has |-> {}], [tag |-> "other", has |-> {}]}

\* keyQuestions.find(q => aiMessage.includes(q)): the first key question of
\* the array the message includes, 0 for undefined.
MatchingQuestion(line) ==
  IF line.has = {} THEN 0 ELSE CHOOSE q \in line.has : \A o \in line.has : q <= o

\* The for loop from index i on, with the lines pushed and the questions found.
RECURSIVE FilterFrom(_, _, _, _)
FilterFrom(lines, i, filtered, foundQuestions) ==
  IF i > Len(lines) THEN filtered
  ELSE IF /\ lines[i].tag = "AI"
          /\ MatchingQuestion(lines[i]) # 0
          /\ MatchingQuestion(lines[i]) \notin foundQuestions
    THEN FilterFrom(lines, i + 1,
                    filtered \o <<lines[i]>> \o
                      (IF i + 1 <= Len(lines) /\ lines[i + 1].tag = "User"
                         THEN <<lines[i + 1]>> ELSE <<>>),
                    foundQuestions \cup {MatchingQuestion(lines[i])})
    ELSE FilterFrom(lines, i + 1, filtered, foundQuestions)

\* filterKeyQuestions(transcript), before the join.
FilterKeyQuestions(lines) == FilterFrom(lines, 1, <<>>, {})

KeyIdle ==
  /\ transcript = <<>>
  /\ filteredLines = <<>>
  /\ keyPc = "idle"

KeyInit ==
  /\ transcript \in UNION {[1..n -> Lines] : n \in 1..MaxLines}
  /\ filteredLines = <<>>
  /\ keyPc = "called"

Filter ==
  /\ keyPc = "called"
  /\ filteredLines' = FilterKeyQuestions(transcript)
  /\ keyPc' = "filtered"
  /\ UNCHANGED transcript
  /\ UNCHANGED notKey

\* ------------------------------------------- the urgency rendering alone
\* getUrgencyColor of PatientList.
GetUrgencyColor(level) ==
  CASE level = "IMMINENT" -> "bg-[#7155ff]"
    [] level = "MEDIUM" -> "bg-[#e7bf14]"
    [] level = "LOW" -> "bg-[#013540]"
    [] OTHER -> "bg-gray-400"

\* The urgency badge of a row of PatientList.
ListBadge(level) ==
  [text |-> IF level = NoLevel THEN "No Level" ELSE level, color |-> GetUrgencyColor(level)]

\* getUrgencyColor of PatientDetails.
GetUrgencyColorDetails(level) ==
  CASE level = "IMMINENT" -> "bg-[#7155ff]"
    [] level = "MEDIUM" -> "bg-[#e7bf14]"
    [] level = "LOW" -> "bg-[#013540]"
    [] OTHER -> "bg-gray-300"

\* The urgency badge of PatientDetails: {selectedCall.urgency_level}, which
\* renders no text for an absent level.
DetailBadge(level) ==
  [text |-> IF level = NoLevel THEN "" ELSE level, color |-> GetUrgencyColorDetails(level)]

\* The Risk Level line of PatientDetails.
RiskLevel(level) ==
  IF level = "IMMINENT" THEN "Critical - Immediate intervention needed"
  ELSE IF level = "MEDIUM" THEN "High Risk - Needs urgent attention"
  ELSE "Low Risk - Stable but needs support"

ViewIdle ==
  /\ viewArgs = [callers |-> <<>>, selectedCall |-> NoLevel]
  /\ views = <<>>
  /\ viewPc = "idle"

ViewInit ==
  /\ viewArgs \in [callers : SeqsUpTo(UrgencyLevels \cup {NoLevel}, MaxLen),
                   selectedCall : UrgencyLevels \cup {NoLevel}]
  /\ views = <<>>
  /\ viewPc = "rendering"

\* The render of both components, a call being selected.
Render ==
  /\ viewPc = "rendering"
  /\ views' = <<[listBadges |-> [k \in 1..Len(viewArgs.callers) |-> ListBadge(viewArgs.callers[k])],
                 detailBadge |-> DetailBadge(viewArgs.selectedCall),
                 riskLevel |-> RiskLevel(viewArgs.selectedCall)]>>
  /\ viewPc' = "rendered"
  /\ UNCHANGED viewArgs
  /\ UNCHANGED notView

\* ---------------------------------------------------------- specifications
\* PatientDetails.
Init == DetailInit /\ ListInit /\ DedupeIdle /\ SortIdle /\ KeyIdle /\ ViewIdle
Next ==
  \/ \E i \in 1..Len(loads) : \E data \in FetchedCalls[loads[i]] : LoadOk(i, data)
  \/ \E i \in 1..Len(loads) : LoadFail(i)
  \/ \E newCall \in CallRows : InsertNotification(newCall)
  \/ \E k \in 1..Len(calls) : SelectCall(k)
  \/ \E p \in Phones : SwitchCaller(p)
  \/ UnmountDetails
Spec == Init /\ [][Next]_vars

\* PatientList.
ListSpecInit == DetailIdle /\ ListInit /\ DedupeIdle /\ SortIdle /\ KeyIdle /\ ViewIdle
ListNext ==
  \/ Mount
  \/ ChangeNotification
  \/ \E i \in 1..Len(fetches) : FetchCallersError(i)
  \/ \E i \in 1..Len(fetches) : \E callersData \in FetchedCallers :
       \E lookups \in [1..Len(callersData) -> LookupOutcomes] :
         FetchCallersDone(i, callersData, lookups)
  \/ \E k \in 1..Len(callers) : ClickCaller(k)
  \/ \E field \in SortFields : HandleSort(field)
  \/ \E type \in FilterSources : SetFilterSource(type)
  \/ Unmount
ListSpec == ListSpecInit /\ [][ListNext]_vars

\* The deduplication of every fetched list.
DedupeSpecInit == DetailIdle /\ ListInit /\ DedupeInit /\ SortIdle /\ KeyIdle /\ ViewIdle
DedupeNext == Dedupe
DedupeSpec == DedupeSpecInit /\ [][DedupeNext]_vars

\* sortCallers on every caller list.
SortSpecInit == DetailIdle /\ ListInit /\ DedupeIdle /\ SortInit /\ KeyIdle /\ ViewIdle
SortNext == Sort
SortSpec == SortSpecInit /\ [][SortNext]_vars

\* filterKeyQuestions on every transcript.
KeySpecInit == DetailIdle /\ ListInit /\ DedupeIdle /\ SortIdle /\ KeyInit /\ ViewIdle
KeyNext == Filter
KeySpec == KeySpecInit /\ [][KeyNext]_vars

\* The urgency rendering of every caller list and selected call.
ViewSpecInit == DetailIdle /\ ListInit /\ DedupeIdle /\ SortIdle /\ KeyIdle /\ ViewInit
ViewNext == Render
ViewSpec == ViewSpecInit /\ [][ViewNext]_vars

\* ------------------------------------------------------------------ claims
UniqueTimestamps(s) ==
  \A i, j \in 1..Len(s) : i # j => s[i].call_timestamp # s[j].call_timestamp

\* C1: an insert notification delivered while a call is selected leaves the
\* selected call unchanged; delivered while no call is selected, it makes the
\* notified call the selected call.
C1_SelectionStable ==
  [][\A newCall \in CallRows :
       InsertNotification(newCall) =>
         IF selectedCall # NoCall
           THEN selectedCall' = selectedCall
           ELSE selectedCall' = newCall]_vars

\* An insert notification was just delivered and another call stayed selected.
C1_Witness == lastInsert # NoCall /\ selectedCall # NoCall /\ selectedCall # lastInsert

\* C2: whatever Loads (of rows with repeated timestamps) and insert
\* notifications happened, no two entries of the call list share a call
\* timestamp.
C2_NoDuplicateTimestamps == UniqueTimestamps(calls)

\* An insert notification was just delivered whose timestamp a different row
\* of the list already has: it was not merged.
C2_Witness ==
  /\ lastInsert # NoCall
  /\ \E k \in 1..Len(calls) :
       calls[k].call_timestamp = lastInsert.call_timestamp /\ calls[k] # lastInsert
  /\ \A k \in 1..Len(calls) : calls[k] # lastInsert

FirstIndexes(data) ==
  {i \in 1..Len(data) :
     \A j \in 1..(i - 1) : data[j].call_timestamp # data[i].call_timestamp}

IndexIn(data, row) == CHOOSE i \in 1..Len(data) : data[i] = row

\* C3: the deduplication of a fetched list returns one entry per distinct
\* timestamp, the first one met in the fetched order, and keeps the fetched
\* order among the kept entries.
C3_DedupeKeepsFirst ==
  dedupePc = "deduped" =>
    /\ UniqueTimestamps(uniqueCalls)
    /\ Len(uniqueCalls) = Cardinality(FirstIndexes(callsData))
    /\ \A i \in FirstIndexes(callsData) :
         \E k \in 1..Len(uniqueCalls) : uniqueCalls[k] = callsData[i]
    /\ \A k \in 1..Len(uniqueCalls) :
         \E i \in FirstIndexes(callsData) : uniqueCalls[k] = callsData[i]
    /\ \A k, l \in 1..Len(uniqueCalls) :
         k < l => IndexIn(callsData, uniqueCalls[k]) < IndexIn(callsData, uniqueCalls[l])

\* The scenario [T2, T2, T1] deduplicated to its first and third rows.
C3_Witness ==
  /\ dedupePc = "deduped"
  /\ Len(callsData) = 3
  /\ callsData[1].call_timestamp = 2
  /\ callsData[2].call_timestamp = 2
  /\ callsData[3].call_timestamp = 1
  /\ uniqueCalls = <<callsData[1], callsData[3]>>

\* C4: delivering the payload of the insert notification that was just
\* delivered changes neither the call list nor the selected call.
C4_InsertIdempotent ==
  [][\A newCall \in CallRows :
       (lastInsert = newCall /\ InsertNotification(newCall)) =>
         (calls' = calls /\ selectedCall' = selectedCall)]_vars

\* One payload was delivered twice in succession, and the first delivery had
\* merged it.
C4_Witness == repeated /\ Len(calls) > 0 /\ calls[1] = lastInsert

\* C5: once a Load has completed, the call list is ordered by call timestamp
\* descending, whatever insert notifications followed.
C5_MostRecentFirst == (~isLoading /\ error = Null) => TsDescending(calls)

\* C6: the record last handed to the consumer is the currently selected
\* caller's, under any interleaving of selections, reloads and fetch
\* completions.
C6_ConsumerHoldsSelected == selectedId # Null => consumer.phone_number = selectedId

\* C7: choosing the active sort key flips the order and keeps the key;
\* choosing the other key makes it the active key with the order descending.
C7_SortControl ==
  [][\A field \in SortFields :
       HandleSort(field) =>
         /\ sortField' = field
         /\ IF sortField = field
              THEN sortOrder' # sortOrder /\ sortOrder' \in SortOrders
              ELSE sortOrder' = "desc"]_vars

\* The other key was chosen and then chosen again: from lastCall descending
\* the state is urgency ascending, and the fetch started last holds it.
C7_Witness ==
  /\ sortField = "urgency"
  /\ sortOrder = "asc"
  /\ Len(fetches) > 0
  /\ fetches[Len(fetches)] = Closure(selectedId, "urgency", "asc")

\* The claim's urgency mapping: LOW=1, MEDIUM=2, IMMINENT=3, missing as LOW.
ClaimKey(c, field) ==
  IF field = "lastCall" THEN c.last_call_timestamp
  ELSE IF c.urgency_level = "IMMINENT" THEN 3
  ELSE IF c.urgency_level = "MEDIUM" THEN 2
  ELSE 1

Reverse(s) == [k \in 1..Len(s) |-> s[Len(s) + 1 - k]]

Flip(order) == IF order = "asc" THEN "desc" ELSE "asc"

TiesFree(s, field) ==
  \A i, j \in 1..Len(s) : i # j => ClaimKey(s[i], field) # ClaimKey(s[j], field)

\* C8: sortCallers returns a permutation of its input ordered by the active
\* key; on ties-free input the ascending result is the reverse of the
\* descending one; sorting the result in the other order and back returns it.
C8_SortCallers ==
  sortPc = "sorted" =>
    LET in == sortArgs.callers
        field == sortArgs.field
        order == sortArgs.order
        out == sortedCallers
    IN /\ Len(out) = Len(in)
       /\ \A i \in 1..Len(in) : \E k \in 1..Len(out) : out[k] = in[i]
       /\ \A k, l \in 1..Len(out) :
            k < l => IF order = "asc"
                       THEN ClaimKey(out[k], field) <= ClaimKey(out[l], field)
                       ELSE ClaimKey(out[k], field) >= ClaimKey(out[l], field)
       /\ TiesFree(in, field) => SortCallers(in, field, Flip(order)) = Reverse(out)
       /\ SortCallers(SortCallers(out, field, Flip(order)), field, order) = out

\* The scenario: [phone 1 (day2, MEDIUM), phone 2 (day1, IMMINENT)] sorted by
\* urgency descending is [phone 2, phone 1].
C8_Witness ==
  /\ sortPc = "sorted"
  /\ sortArgs.field = "urgency"
  /\ sortArgs.order = "desc"
  /\ Len(sortArgs.callers) = 2
  /\ sortArgs.callers[1] =
       [phone_number |-> 1, last_call_timestamp |-> 2, urgency_level |-> "MEDIUM",
        last_source |-> Null]
  /\ sortArgs.callers[2] =
       [phone_number |-> 2, last_call_timestamp |-> 1, urgency_level |-> "IMMINENT",
        last_source |-> Null]
  /\ sortedCallers = <<sortArgs.callers[2], sortArgs.callers[1]>>

IsSubsequence(v, s) ==
  \E f \in [1..Len(v) -> 1..Len(s)] :
    /\ \A k \in 1..Len(v) : v[k] = s[f[k]]
    /\ \A k, l \in 1..Len(v) : k < l => f[k] < f[l]

\* C9: the 'All' filter shows the whole list, a source filter shows only
\* callers of that source, and the rows shown are a subsequence of the list.
C9_Filter ==
  LET shown == Visible(callers, filterSource) IN
    /\ filterSource = "All" => shown = callers
    /\ filterSource = "Phone Call" =>
         \A k \in 1..Len(shown) : shown[k].last_source = "Phone"
    /\ filterSource = "Chatbot" =>
         \A k \in 1..Len(shown) : shown[k].last_source = "Chatbot"
    /\ IsSubsequence(shown, callers)

\* A source filter is on and shows the second caller of the list alone.
C9_Witness ==
  /\ filterSource = "Phone Call"
  /\ Len(callers) = 2
  /\ Visible(callers, filterSource) = <<callers[2]>>

\* C10: a run of fetchCallersAndScores whose callers query fails leaves the
\* caller list, the selected caller, the sort state and the filter as they
\* were and does not call the consumer.
C10_FetchFailureLeavesState ==
  [][\A i \in 1..Len(fetches) :
       FetchCallersError(i) =>
         /\ UNCHANGED <<callers, selectedId, sortField, sortOrder, filterSource, consumer>>
         /\ lastStep' # "onSelect"]_vars

\* A callers query just failed with a caller selected and a list shown.
C10_Witness == lastStep = "failed" /\ selectedId # Null /\ callers # <<>>

\* C11: a Load whose caller query succeeded installs a list holding every
\* fetched caller, whichever per-caller lookups failed; a caller whose lookup
\* failed carries no urgency and no source, every other caller the urgency
\* and source of its most recent call.
C11_LookupFailureIsolated ==
  response # <<>> =>
    LET r == response[1] IN
      /\ Len(callers) = Len(r.callersData)
      /\ \A k \in 1..Len(r.callersData) :
           \E j \in 1..Len(callers) :
             /\ callers[j].phone_number = r.callersData[k].phone_number
             /\ callers[j].last_call_timestamp = r.callersData[k].last_call_timestamp
             /\ IF r.lookups[k].failed
                  THEN callers[j].urgency_level = NoLevel /\ callers[j].last_source = Null
                  ELSE /\ callers[j].urgency_level = r.lookups[k].data[1].urgency_level
                       /\ callers[j].last_source = r.lookups[k].data[1].source

\* A Load just completed in which one caller's lookup failed and another's
\* did not.
C11_Witness ==
  /\ response # <<>>
  /\ \E k, l \in 1..Len(response[1].lookups) :
       response[1].lookups[k].failed /\ ~response[1].lookups[l].failed

\* C12: a failed Load leaves the error message set and loading cleared, which
\* renders the error branch, neither the loading branch nor the details of a
\* Load without calls; it leaves the call list as it was.
C12_FailedLoadShowsError ==
  [][\A i \in 1..Len(loads) :
       (~detailUnmounted /\ LoadFail(i)) =>
         /\ error' # Null
         /\ ~isLoading'
         /\ View(isLoading', error') = "error"
         /\ calls' = calls]_vars

\* A Load failed, no Load is in flight, and the list holds the calls it held.
C12_Witness ==
  /\ ~detailUnmounted
  /\ error # Null
  /\ ~isLoading
  /\ loads = <<>>
  /\ calls # <<>>

\* C13: once the component is unmounted, or an effect run is torn down by a
\* change of the selection or the sort state, the run's subscriptions are
\* released, its handler does not run again and it does not update the
\* component's state any more: the subscribed handlers are those of the
\* current effect run, none after unmount, and a fetchCallersAndScores that
\* sets the list belongs to the current effect run.
C13_TornDownEffectSilent ==
  /\ subscribed \subseteq {Closure(selectedId, sortField, sortOrder)}
  /\ unmounted => subscribed = {}
  /\ response # <<>> =>
       [response[1].closure EXCEPT !.overtaken = FALSE] = Closure(selectedId, sortField, sortOrder)

\* The positions of the AI lines of s whose message includes q.
Asking(s, q) == {k \in 1..Len(s) : s[k].tag = "AI" /\ q \in s[k].has}

\* C14: the extraction emits each key question at most once; the emitted
\* lines are a subsequence of the transcript; an emitted User line comes
\* right after an emitted AI line, as in the transcript; no AI line without
\* a key question and no line that is neither AI nor User is emitted.
C14_ExtractionOnce ==
  keyPc = "filtered" =>
    /\ \A q \in KeyQuestions : Cardinality(Asking(filteredLines, q)) <= 1
    /\ IsSubsequence(filteredLines, transcript)
    /\ \A k \in 1..Len(filteredLines) :
         /\ filteredLines[k].tag = "User" =>
              /\ k > 1
              /\ filteredLines[k - 1].tag = "AI"
              /\ \E i \in 1..(Len(transcript) - 1) :
                   transcript[i] = filteredLines[k - 1] /\ transcript[i + 1] = filteredLines[k]
         /\ filteredLines[k].tag = "AI" => filteredLines[k].has # {}
         /\ filteredLines[k].tag # "other"

\* C15: for every key question some AI line includes, the output holds the
\* first AI line that includes it, and right after it the User line that
\* follows it in the transcript, whatever other key questions the line includes.
C15_FirstOccurrenceEmitted ==
  keyPc = "filtered" =>
    \A q \in KeyQuestions :
      Asking(transcript, q) # {} =>
        LET first == CHOOSE i \in Asking(transcript, q) : \A j \in Asking(transcript, q) : i <= j
        IN \E k \in 1..Len(filteredLines) :
             /\ filteredLines[k] = transcript[first]
             /\ (first < Len(transcript) /\ transcript[first + 1].tag = "User") =>
                  (k < Len(filteredLines) /\ filteredLines[k + 1] = transcript[first + 1])

\* The texts that present one of the three levels.
LevelTexts ==
  UrgencyLevels \cup {RiskLevel(level) : level \in UrgencyLevels}

\* C16: an absent urgency level is never presented as LOW or another level:
\* not by the badge of a row of the list, not by the badge of the details,
\* not by the Risk Level line.
C16_AbsentUrgencyUnknown ==
  viewPc = "rendered" =>
    /\ \A k \in 1..Len(viewArgs.callers) :
         viewArgs.callers[k] = NoLevel => views[1].listBadges[k].text \notin LevelTexts
    /\ viewArgs.selectedCall = NoLevel =>
         /\ views[1].detailBadge.text \notin LevelTexts
         /\ views[1].riskLevel \notin LevelTexts

\* C17: while the component is mounted a notification of either channel
\* starts a reload, and a reload that completes leaves the list holding the
\* fetched callers with their annotations, sorted by the current sort field
\* and order.
C17_ReloadSortedByCurrent ==
  /\ (mounted /\ ~unmounted) => subscribed # {}
  /\ response # <<>> =>
       callers = SortCallers(WithScores(response[1].callersData, response[1].lookups),
                             sortField, sortOrder)

\* C18: whichever run completes sets the list, a run started before a run
\* that has completed included, and the list stays as it is until another
\* run completes.
C18_LastCompletionWins ==
  /\ [](response # <<>> =>
          callers = SortCallers(WithScores(response[1].callersData, response[1].lookups),
                                response[1].closure.sortField, response[1].closure.sortOrder))
  /\ [][(callers' # callers /\ ~unmounted') => response' # <<>>]_vars

\* A run that was started before a run that has completed just completed in
\* its turn and its callers are listed.
C18_Witness ==
  /\ response # <<>>
  /\ response[1].closure.overtaken
  /\ callers # <<>>

\* C19: the selected call is absent or a call of the call list.
C19_SelectedInList ==
  selectedCall = NoCall \/ \E k \in 1..Len(calls) : calls[k] = selectedCall

\* C20: when no fetchCallerData is in flight, every call of the list is a
\* call of the caller the component is given.
C20_CallsOfCurrentCaller ==
  loads = <<>> => \A k \in 1..Len(calls) : calls[k].phone_number = caller

\* C21: once the fetchCallerData run started last has completed without
\* error and no run is in flight, the mounted component renders neither the
\* error branch nor the loading branch.
C21_LatestLoadDecidesView ==
  (~detailUnmounted /\ latestLoad = "ok" /\ loads = <<>>) =>
    (error = Null /\ ~isLoading /\ View(isLoading, error) = "details")

====
